---- MODULE Spec2Model ----
(***************************************************************************)
(* Frame lifecycle and CPU/GPU synchronisation of VulkanApplication:       *)
(* VulkanApplication::run / drawFrame (application.cpp) driving the        *)
(* GraphicsPipeline of graphics_pipeline.cpp, against a device that        *)
(* executes submissions and a presentation engine that consumes presents.  *)
(* (specification Spec; LiveSpec adds the fairness of the thread, the      *)
(* device and the presentation engine), and the managers of graphics.cpp,  *)
(* CommandBufferManager and BufferManager, constructed, used and destroyed *)
(* by a client against a device and an allocator whose calls can fail      *)
(* (specification ManagerSpec).                                            *)
(***************************************************************************)
EXTENDS Integers, Sequences, FiniteSets, TLC

\* ------------------------------------------------------------------------
\* Program constant and model bounds

MAX_FRAMES_IN_FLIGHT == 2

\* M, the number of swapchain images (decided by the surface at run time)
NumImages == 3

\* cap on the number of drawFrame iterations that are started
MaxFrames == 3

Slots == 0 .. (MAX_FRAMES_IN_FLIGHT - 1)

Images == 0 .. (NumImages - 1)

\* ------------------------------------------------------------------------
\* VkResult values returned by the Vulkan calls of drawFrame

VK_SUCCESS == "VK_SUCCESS"

VK_SUBOPTIMAL_KHR == "VK_SUBOPTIMAL_KHR"

VK_ERROR_OUT_OF_DATE_KHR == "VK_ERROR_OUT_OF_DATE_KHR"

VK_ERROR_OUT_OF_HOST_MEMORY == "VK_ERROR_OUT_OF_HOST_MEMORY"

VK_ERROR_DEVICE_LOST == "VK_ERROR_DEVICE_LOST"

\* results of vkWaitForFences, vkResetFences, vkResetCommandBuffer,
\* vkBeginCommandBuffer, vkEndCommandBuffer, vkQueueSubmit
CallResults == {VK_SUCCESS, VK_ERROR_OUT_OF_HOST_MEMORY}

\* results of vkAcquireNextImageKHR and vkQueuePresentKHR
SwapchainResults == {VK_SUCCESS, VK_SUBOPTIMAL_KHR, VK_ERROR_OUT_OF_DATE_KHR, VK_ERROR_DEVICE_LOST}

\* the results of a swapchain call that report a stale surface
StaleResults == {VK_ERROR_OUT_OF_DATE_KHR}

\* the results of a swapchain call that report a fatal failure
FatalResults == {VK_ERROR_DEVICE_LOST}

\* ------------------------------------------------------------------------
\* Exceptions

NoExc == [type |-> "none", what |-> ""]

RuntimeError(msg) == [type |-> "std::runtime_error", what |-> msg]

NoImage == -1

NoCall == [call |-> "none", result |-> VK_SUCCESS]

FrameOrder == <<"WAIT", "ACQUIRE", "RECORD", "SUBMIT", "PRESENT">>

\* the index data main builds (two triangles sharing an edge)
IndexData == {<<0, 1, 2, 2, 3, 0>>}

VARIABLES
    pc,                        \* position of the CPU thread
    currentFrame,              \* VulkanApplication::currentFrame
    frameIndex,                \* drawFrame local
    imageIndex,                \* drawFrame local
    exc,                       \* exception in flight / caught by main
    exitCode,                  \* value returned by main
    inFlightFences,            \* per slot: "null" | "signaled" | "unsignaled" | "destroyed"
    imageAvailableSemaphores,  \* per slot: "null" | "signaled" | "unsignaled" | "destroyed"
    renderFinishedSemaphores,  \* per slot: "null" | "signaled" | "unsignaled" | "destroyed"
    commandBuffers,            \* per slot: "initial" | "executable" | "pending" | "freed"
    gpuQueue,                  \* submissions on the graphics queue, oldest first
    presentQueue,              \* present requests on the present queue, oldest first
    acquirePending,            \* acquires whose image-available signal is still to come
    images,                    \* per swapchain image: state, owner frame, readiness
    frameCount,                \* number of drawFrame iterations started
    steps,                     \* steps performed by the current drawFrame iteration
    lastCall,                  \* the latest Vulkan call of drawFrame and its result
    retired,                   \* frames whose submission has completed on the device
    commandPool,               \* GraphicsPipeline::commandPool: "created" | "destroyed"
    vertexBuffer,              \* GraphicsPipeline::vertexBuffer: "created" | "destroyed"
    indexBuffer,               \* GraphicsPipeline::indexBuffer: "created" | "destroyed"
    indices,                   \* the index data handed to the application by main
    advances,                  \* number of times drawFrame has advanced currentFrame
    recordedCommands,          \* per slot: the commands held by the slot's command buffer
    teardownLog,               \* the calls ~GraphicsPipeline has made, in order
    released                   \* the members of VulkanApplication released so far, in order

VARIABLES
    mpc,                       \* position of the client of the managers of graphics.cpp
    cbm,                       \* the CommandBufferManager's members
    bm,                        \* the BufferManager's members
    gp,                        \* GraphicsPipeline::uniformBuffers / uniformBuffersMapped / framebuffers
    device,                    \* the pools, semaphores and fences alive on the VkDevice
    allocator,                 \* the AllocatorManager's buffers and its bookkeeping
    memory,                    \* contents of the host-visible memory of each buffer
    mexc,                      \* exception that left the latest operation
    lastAccess,                \* the latest accessor call and its outcome
    lastUpdate,                \* the latest updateUniformBuffer call and its outcome
    outcomes                   \* what each create... call of the BufferManager has met

frameVars == <<pc, currentFrame, frameIndex, imageIndex, exc, exitCode, inFlightFences,
               imageAvailableSemaphores, renderFinishedSemaphores, commandBuffers, gpuQueue,
               presentQueue, acquirePending, images, frameCount, steps, lastCall, retired,
               commandPool, vertexBuffer, indexBuffer, indices, advances, recordedCommands,
               teardownLog, released>>

managerVars == <<mpc, cbm, bm, gp, device, allocator, memory, mexc, lastAccess, lastUpdate,
                 outcomes>>

vars == <<frameVars, managerVars>>

cpuVars == <<pc, currentFrame, advances, frameIndex, imageIndex, exc, exitCode, frameCount, steps,
             lastCall>>

syncVars == <<inFlightFences, imageAvailableSemaphores, renderFinishedSemaphores>>

deviceVars == <<gpuQueue, presentQueue, acquirePending, images, retired>>

bufferVars == <<commandPool, vertexBuffer, indexBuffer, indices>>

teardownVars == <<teardownLog, released>>

FreeImage == [st |-> "free", frame |-> 0, ready |-> FALSE]

FrameInit ==
    /\ pc = "createSyncObjects"
    /\ currentFrame = 0
    /\ frameIndex = 0
    /\ imageIndex = NoImage
    /\ exc = NoExc
    /\ exitCode = "running"
    /\ inFlightFences = [s \in Slots |-> "null"]
    /\ imageAvailableSemaphores = [s \in Slots |-> "null"]
    /\ renderFinishedSemaphores = [s \in Slots |-> "null"]
    /\ commandBuffers = [s \in Slots |-> "initial"]
    /\ gpuQueue = <<>>
    /\ presentQueue = <<>>
    /\ acquirePending = {}
    /\ images = [i \in Images |-> FreeImage]
    /\ frameCount = 0
    /\ steps = <<>>
    /\ lastCall = NoCall
    /\ retired = {}
    /\ commandPool = "created"
    /\ vertexBuffer = "created"
    /\ indexBuffer = "created"
    /\ indices \in IndexData
    /\ advances = 0
    /\ recordedCommands = [s \in Slots |-> <<>>]
    /\ teardownLog = <<>>
    /\ released = <<>>

\* ------------------------------------------------------------------------
\* The managers of graphics.cpp: handles, the device and the allocator

VK_NULL_HANDLE == 0

\* a member that no initialiser and no assignment has given a value
Indeterminate == -1

\* a value that is neither null nor the handle of anything that exists
StrayHandle == -2

\* what a read of an indeterminate or out-of-bounds handle can yield
StrayValues == {VK_NULL_HANDLE, StrayHandle}

\* sizeof(UniformBufferObject), in bytes (the model's cap on it)
UboSize == 1

\* the byte values the model writes
Bytes == {0, 255}

\* the values of a UniformBufferObject, as the bytes of its object representation
UboValues == [1 .. UboSize -> Bytes]

\* a std::vector of n elements, each v (resize value-initialises)
Vec(n, v) == [i \in 0 .. (n - 1) |-> v]

\* the elements of vector v in order, as a sequence
Elements(v) == [k \in 1 .. Cardinality(DOMAIN v) |-> v[k - 1]]

OutOfRange(msg) == [type |-> "std::out_of_range", what |-> msg]

NoAccess == [fn |-> "none", index |-> 0, outOfBounds |-> FALSE, outcome |-> "none", value |-> VK_NULL_HANDLE]

NoUpdate == [slot |-> 0, data |-> <<>>, outcome |-> "none", target |-> VK_NULL_HANDLE, targetLive |-> FALSE]

NoOutcomes == [vertex |-> "none", index |-> "none", uniform |-> <<"none">>]

ManagerInit ==
    /\ mpc = "cbmCtor"
    /\ cbm = [commandPool |-> VK_NULL_HANDLE,
              commandBuffers |-> Vec(0, VK_NULL_HANDLE),
              imageAvailableSemaphores |-> Vec(0, VK_NULL_HANDLE),
              renderFinishedSemaphores |-> Vec(0, VK_NULL_HANDLE),
              inFlightFences |-> Vec(0, VK_NULL_HANDLE)]
    /\ bm = [vertexBuffer |-> Indeterminate,
             indexBuffer |-> Indeterminate,
             uniformBuffers |-> Vec(0, VK_NULL_HANDLE),
             uniformBuffersMapped |-> Vec(0, VK_NULL_HANDLE)]
    /\ gp = [uniformBuffers |-> Vec(0, VK_NULL_HANDLE),
             uniformBuffersMapped |-> Vec(0, VK_NULL_HANDLE),
             framebuffers |-> Vec(0, VK_NULL_HANDLE)]
    /\ device = [live |-> {}, next |-> 1, log |-> <<>>]
    /\ allocator = [live |-> {}, mapped |-> {}, next |-> 1, outstanding |-> 0, log |-> <<>>]
    /\ memory = Vec(0, <<>>)
    /\ mexc = NoExc
    /\ lastAccess = NoAccess
    /\ lastUpdate = NoUpdate
    /\ outcomes = NoOutcomes

Init == FrameInit /\ ManagerInit

\* ------------------------------------------------------------------------
\* Startup: GraphicsPipeline::createSyncObjects

\* faulty variant: the fence is created without VK_FENCE_CREATE_SIGNALED_BIT
FenceCreateState_Unsignaled == "unsignaled"

\* fenceInfo.flags = VK_FENCE_CREATE_SIGNALED_BIT
FenceCreateState == "signaled"

\* the three creations of slot i, in the order of the || chain
SyncCreations == {<<i, k>> : i \in Slots, k \in 1 .. 3}

\* creation <<i, k>> is reached and succeeds when the first failure is at failAt
CreatedBefore(i, k, failAt) == failAt = <<>> \/ i < failAt[1] \/ (i = failAt[1] /\ k < failAt[2])

Throw(e) ==
    /\ exc' = e
    /\ pc' = "unwind"

CreateSyncObjects ==
    /\ pc = "createSyncObjects"
    /\ \E failAt \in SyncCreations \cup {<<>>} :
        /\ imageAvailableSemaphores' =
               [s \in Slots |-> IF CreatedBefore(s, 1, failAt) THEN "unsignaled" ELSE "null"]
        /\ renderFinishedSemaphores' =
               [s \in Slots |-> IF CreatedBefore(s, 2, failAt) THEN "unsignaled" ELSE "null"]
        /\ inFlightFences' =
               [s \in Slots |-> IF CreatedBefore(s, 3, failAt) THEN FenceCreateState ELSE "null"]
        /\ IF failAt = <<>>
           THEN pc' = "loop" /\ exc' = exc
           ELSE Throw(RuntimeError("failed to create synchronization objects for a frame!"))
    /\ UNCHANGED <<currentFrame, advances, frameIndex, imageIndex, exitCode, commandBuffers, recordedCommands, frameCount,
                   steps, lastCall>>
    /\ UNCHANGED deviceVars
    /\ UNCHANGED bufferVars
    /\ UNCHANGED teardownVars
    /\ UNCHANGED managerVars

\* ------------------------------------------------------------------------
\* VulkanApplication::run and drawFrame

\* faulty variant: the command buffer is reset and recorded before the image is acquired
DrawFrameNext_RecordBeforeAcquire(p) ==
    CASE p = "wait" -> "reset"
      [] p = "reset" -> "resetCommandBuffer"
      [] p = "resetCommandBuffer" -> "record"
      [] p = "record" -> "acquire"
      [] p = "acquire" -> "submit"
      [] p = "submit" -> "present"
      [] p = "present" -> "loop"

\* the statement that follows each statement of drawFrame
DrawFrameNext(p) ==
    CASE p = "wait" -> "reset"
      [] p = "reset" -> "acquire"
      [] p = "acquire" -> "resetCommandBuffer"
      [] p = "resetCommandBuffer" -> "record"
      [] p = "record" -> "submit"
      [] p = "submit" -> "present"
      [] p = "present" -> "loop"

\* while (!windowShouldClose()) { pollEvents(); drawFrame(); } : one test of the loop
\* condition, and on a window that stays open the entry into drawFrame
RunLoop ==
    /\ pc = "loop"
    /\ \E close \in BOOLEAN :
        /\ frameCount >= MaxFrames => close
        /\ IF close
           THEN /\ pc' = "runWaitIdle"
                /\ UNCHANGED <<frameIndex, imageIndex, frameCount, steps, lastCall>>
           ELSE /\ pc' = "wait"
                /\ frameIndex' = currentFrame
                /\ imageIndex' = NoImage
                /\ frameCount' = frameCount + 1
                /\ steps' = <<>>
                /\ lastCall' = NoCall
    /\ UNCHANGED <<currentFrame, advances, exc, exitCode, commandBuffers, recordedCommands>>
    /\ UNCHANGED syncVars
    /\ UNCHANGED deviceVars
    /\ UNCHANGED bufferVars
    /\ UNCHANGED teardownVars
    /\ UNCHANGED managerVars

\* GraphicsPipeline::waitForFences: the VkResult of vkWaitForFences is discarded.
\* VK_SUCCESS is returned only once the fence is signaled (timeout UINT64_MAX).
WaitForFences ==
    /\ pc = "wait"
    /\ \E r \in CallResults :
        /\ r = VK_SUCCESS => inFlightFences[frameIndex] = "signaled"
        /\ lastCall' = [call |-> "vkWaitForFences", result |-> r]
    /\ steps' = Append(steps, "WAIT")
    /\ pc' = DrawFrameNext("wait")
    /\ UNCHANGED <<currentFrame, advances, frameIndex, imageIndex, exc, exitCode, commandBuffers, recordedCommands, frameCount>>
    /\ UNCHANGED syncVars
    /\ UNCHANGED deviceVars
    /\ UNCHANGED bufferVars
    /\ UNCHANGED teardownVars
    /\ UNCHANGED managerVars

\* GraphicsPipeline::resetFences: the VkResult of vkResetFences is discarded
ResetFences ==
    /\ pc = "reset"
    /\ \E r \in CallResults :
        /\ lastCall' = [call |-> "vkResetFences", result |-> r]
        /\ inFlightFences' = IF r = VK_SUCCESS
                             THEN [inFlightFences EXCEPT ![frameIndex] = "unsignaled"]
                             ELSE inFlightFences
    /\ pc' = DrawFrameNext("reset")
    /\ UNCHANGED <<currentFrame, advances, frameIndex, imageIndex, exc, exitCode, commandBuffers, recordedCommands, frameCount, steps>>
    /\ UNCHANGED <<imageAvailableSemaphores, renderFinishedSemaphores>>
    /\ UNCHANGED deviceVars
    /\ UNCHANGED bufferVars
    /\ UNCHANGED teardownVars
    /\ UNCHANGED managerVars

\* the semaphore handed to vkAcquireNextImageKHR
AcquireSemaphore(f) == f

\* faulty variant: only the error codes raise, VK_SUBOPTIMAL_KHR is taken for a success
AcquireThrows_ErrorsOnly(r) == r \notin {VK_SUCCESS, VK_SUBOPTIMAL_KHR}

\* the test drawFrame applies to the result of vkAcquireNextImageKHR
AcquireThrows(r) == r # VK_SUCCESS

\* the exception drawFrame raises for result r of vkAcquireNextImageKHR
AcquireException(r) == RuntimeError("failed to acquire swap chain image!")

\* vkAcquireNextImageKHR hands out an image on VK_SUCCESS and VK_SUBOPTIMAL_KHR
AcquireNextImage ==
    /\ pc = "acquire"
    /\ \E r \in SwapchainResults :
        /\ lastCall' = [call |-> "vkAcquireNextImageKHR", result |-> r]
        /\ IF r \in {VK_SUCCESS, VK_SUBOPTIMAL_KHR}
           THEN \E i \in Images :
                    /\ images[i].st = "free"
                    /\ images' = [images EXCEPT ![i] = [st |-> "acquired", frame |-> frameCount, ready |-> FALSE]]
                    /\ imageIndex' = i
                    /\ acquirePending' = acquirePending \cup
                           {[sem |-> AcquireSemaphore(frameIndex), image |-> i, frame |-> frameCount]}
           ELSE UNCHANGED <<images, imageIndex, acquirePending>>
        /\ IF AcquireThrows(r)
           THEN Throw(AcquireException(r))
           ELSE pc' = DrawFrameNext("acquire") /\ exc' = exc
    /\ steps' = Append(steps, "ACQUIRE")
    /\ UNCHANGED <<currentFrame, advances, frameIndex, exitCode, commandBuffers, recordedCommands, frameCount>>
    /\ UNCHANGED syncVars
    /\ UNCHANGED <<gpuQueue, presentQueue, retired>>
    /\ UNCHANGED bufferVars
    /\ UNCHANGED teardownVars
    /\ UNCHANGED managerVars

\* getCommandBuffer(frameIndex); vkResetCommandBuffer(cmdBuffer, 0): result discarded
ResetCommandBuffer ==
    /\ pc = "resetCommandBuffer"
    /\ \E r \in CallResults :
        /\ lastCall' = [call |-> "vkResetCommandBuffer", result |-> r]
        /\ commandBuffers' = IF r = VK_SUCCESS
                             THEN [commandBuffers EXCEPT ![frameIndex] = "initial"]
                             ELSE commandBuffers
        /\ recordedCommands' = IF r = VK_SUCCESS
                                THEN [recordedCommands EXCEPT ![frameIndex] = <<>>]
                                ELSE recordedCommands
    /\ pc' = DrawFrameNext("resetCommandBuffer")
    /\ UNCHANGED <<currentFrame, advances, frameIndex, imageIndex, exc, exitCode, frameCount, steps>>
    /\ UNCHANGED syncVars
    /\ UNCHANGED deviceVars
    /\ UNCHANGED bufferVars
    /\ UNCHANGED teardownVars
    /\ UNCHANGED managerVars

\* faulty variant: the draw leaves out the last index
DrawIndexed_OneShort(idx) ==
    [cmd |-> "vkCmdDrawIndexed", indexCount |-> Len(idx) - 1, instanceCount |-> 1,
     firstIndex |-> 0, vertexOffset |-> 0, firstInstance |-> 0]

\* vkCmdDrawIndexed(commandBuffer, static_cast<uint32_t>(indices.size()), 1, 0, 0, 0);
\* a vector of uint16_t indices that fits in memory has fewer than 2^32 elements
DrawIndexed(idx) ==
    [cmd |-> "vkCmdDrawIndexed", indexCount |-> Len(idx), instanceCount |-> 1,
     firstIndex |-> 0, vertexOffset |-> 0, firstInstance |-> 0]

\* the commands recordCommandBuffer puts between vkBeginCommandBuffer and
\* vkEndCommandBuffer for the acquired image img
RecordedCommands(img, idx) ==
    << [cmd |-> "vkCmdBeginRenderPass", framebuffer |-> img],
       [cmd |-> "vkCmdBindPipeline"],
       [cmd |-> "vkCmdSetViewport"],
       [cmd |-> "vkCmdSetScissor"],
       [cmd |-> "vkCmdBindVertexBuffers", firstBinding |-> 0, offset |-> 0],
       [cmd |-> "vkCmdBindIndexBuffer", offset |-> 0, indexType |-> "VK_INDEX_TYPE_UINT16"],
       DrawIndexed(idx),
       [cmd |-> "vkCmdEndRenderPass"] >>

\* GraphicsPipeline::recordCommandBuffer(frameIndex, imageIndex); vkBeginCommandBuffer
\* on a buffer of a pool with RESET_COMMAND_BUFFER_BIT discards what the buffer held
RecordCommandBuffer ==
    /\ pc = "record"
    /\ \E rb \in CallResults, re \in CallResults :
        IF rb # VK_SUCCESS
        THEN /\ lastCall' = [call |-> "vkBeginCommandBuffer", result |-> rb]
             /\ Throw(RuntimeError("failed to begin recording command buffer!"))
             /\ UNCHANGED <<commandBuffers, recordedCommands>>
        ELSE IF re # VK_SUCCESS
        THEN /\ lastCall' = [call |-> "vkEndCommandBuffer", result |-> re]
             /\ Throw(RuntimeError("failed to record command buffer!"))
             /\ commandBuffers' = [commandBuffers EXCEPT ![frameIndex] = "invalid"]
             /\ recordedCommands' =
                    [recordedCommands EXCEPT ![frameIndex] = RecordedCommands(imageIndex, indices)]
        ELSE /\ lastCall' = [call |-> "vkEndCommandBuffer", result |-> re]
             /\ commandBuffers' = [commandBuffers EXCEPT ![frameIndex] = "executable"]
             /\ recordedCommands' =
                    [recordedCommands EXCEPT ![frameIndex] = RecordedCommands(imageIndex, indices)]
             /\ pc' = DrawFrameNext("record")
             /\ exc' = exc
    /\ steps' = Append(steps, "RECORD")
    /\ UNCHANGED <<currentFrame, advances, frameIndex, imageIndex, exitCode, frameCount>>
    /\ UNCHANGED syncVars
    /\ UNCHANGED deviceVars
    /\ UNCHANGED bufferVars
    /\ UNCHANGED teardownVars
    /\ UNCHANGED managerVars

\* the VkSubmitInfo and fence drawFrame hands to vkQueueSubmit
SubmitInfo(f, img, n) ==
    [frame |-> n, cmd |-> f, image |-> img, waitSem |-> f, signalSem |-> f, fence |-> f,
     phase |-> "queued"]

\* the test drawFrame applies to the result of vkQueueSubmit
SubmitThrows(r) == r # VK_SUCCESS

QueueSubmit ==
    /\ pc = "submit"
    /\ \E r \in CallResults :
        /\ lastCall' = [call |-> "vkQueueSubmit", result |-> r]
        /\ IF r = VK_SUCCESS
           THEN /\ gpuQueue' = Append(gpuQueue, SubmitInfo(frameIndex, imageIndex, frameCount))
                /\ commandBuffers' = [commandBuffers EXCEPT ![frameIndex] = "pending"]
           ELSE UNCHANGED <<gpuQueue, commandBuffers>>
        /\ IF SubmitThrows(r)
           THEN Throw(RuntimeError("failed to submit draw command buffer!"))
           ELSE pc' = DrawFrameNext("submit") /\ exc' = exc
    /\ steps' = Append(steps, "SUBMIT")
    /\ UNCHANGED <<currentFrame, advances, frameIndex, imageIndex, exitCode, frameCount, recordedCommands>>
    /\ UNCHANGED syncVars
    /\ UNCHANGED <<presentQueue, acquirePending, images, retired>>
    /\ UNCHANGED bufferVars
    /\ UNCHANGED teardownVars
    /\ UNCHANGED managerVars

\* the VkPresentInfoKHR drawFrame hands to vkQueuePresentKHR (pWaitSemaphores = signalSemaphores)
PresentInfo(f, img, n) == [frame |-> n, image |-> img, waitSem |-> f]

\* the test drawFrame applies to the result of vkQueuePresentKHR
PresentThrows(r) == r # VK_SUCCESS

\* the exception drawFrame raises for result r of vkQueuePresentKHR
PresentException(r) == RuntimeError("failed to present swap chain image!")

\* faulty variant: the counter is reduced modulo N without being incremented
NextSlot_NoIncrement(s) == s % MAX_FRAMES_IN_FLIGHT

\* currentFrame = (currentFrame + 1) % MAX_FRAMES_IN_FLIGHT
NextSlot(s) == (s + 1) % MAX_FRAMES_IN_FLIGHT

\* vkQueuePresentKHR queues the present on VK_SUCCESS and VK_SUBOPTIMAL_KHR;
\* currentFrame = (currentFrame + 1) % MAX_FRAMES_IN_FLIGHT ends a frame that did not throw
QueuePresent ==
    /\ pc = "present"
    /\ \E r \in SwapchainResults :
        /\ lastCall' = [call |-> "vkQueuePresentKHR", result |-> r]
        /\ IF r \in {VK_SUCCESS, VK_SUBOPTIMAL_KHR}
           THEN /\ presentQueue' = Append(presentQueue, PresentInfo(frameIndex, imageIndex, frameCount))
                /\ images' = [images EXCEPT ![imageIndex].st = "queued"]
           ELSE UNCHANGED <<presentQueue, images>>
        /\ IF PresentThrows(r)
           THEN Throw(PresentException(r)) /\ UNCHANGED <<currentFrame, advances>>
           ELSE /\ currentFrame' = NextSlot(currentFrame)
                /\ advances' = advances + 1
                /\ pc' = DrawFrameNext("present")
                /\ exc' = exc
    /\ steps' = Append(steps, "PRESENT")
    /\ UNCHANGED <<frameIndex, imageIndex, exitCode, commandBuffers, recordedCommands, frameCount>>
    /\ UNCHANGED syncVars
    /\ UNCHANGED <<gpuQueue, acquirePending, retired>>
    /\ UNCHANGED bufferVars
    /\ UNCHANGED teardownVars
    /\ UNCHANGED managerVars

\* ------------------------------------------------------------------------
\* Shutdown: run() after the loop, ~VulkanApplication, ~GraphicsPipeline, main

\* vkDeviceWaitIdle returns once no submission is left on the device's queues
DeviceIdle == gpuQueue = <<>>

\* run(): vkDeviceWaitIdle(device) after the loop, then run() returns
RunWaitIdle ==
    /\ pc = "runWaitIdle"
    /\ DeviceIdle
    /\ pc' = "returned"
    /\ UNCHANGED <<currentFrame, advances, frameIndex, imageIndex, exc, exitCode, commandBuffers, recordedCommands, frameCount,
                   steps, lastCall>>
    /\ UNCHANGED syncVars
    /\ UNCHANGED deviceVars
    /\ UNCHANGED bufferVars
    /\ UNCHANGED teardownVars
    /\ UNCHANGED managerVars

\* the application object goes out of scope in main (run() returned, or an exception
\* unwinds through it): ~VulkanApplication -> destroyResources -> graphicsPipeline.reset()
DestroyResources ==
    /\ pc \in {"returned", "unwind"}
    /\ pc' = "dtorWaitIdle"
    /\ UNCHANGED <<currentFrame, advances, frameIndex, imageIndex, exc, exitCode, commandBuffers, recordedCommands, frameCount,
                   steps, lastCall>>
    /\ UNCHANGED syncVars
    /\ UNCHANGED deviceVars
    /\ UNCHANGED bufferVars
    /\ UNCHANGED teardownVars
    /\ UNCHANGED managerVars

\* faulty variant: the destructor goes on to destroy without waiting for the device
DtorWaitIdle_NoWait ==
    /\ pc = "dtorWaitIdle"
    /\ pc' = "destroy"
    /\ UNCHANGED <<currentFrame, advances, frameIndex, imageIndex, exc, exitCode, commandBuffers, recordedCommands, frameCount,
                   steps, lastCall>>
    /\ UNCHANGED syncVars
    /\ UNCHANGED deviceVars
    /\ UNCHANGED bufferVars
    /\ UNCHANGED teardownVars
    /\ UNCHANGED managerVars

\* ~GraphicsPipeline: vkDeviceWaitIdle(device) is the first statement
DtorWaitIdle ==
    /\ pc = "dtorWaitIdle"
    /\ DeviceIdle
    /\ pc' = "destroy"
    /\ UNCHANGED <<currentFrame, advances, frameIndex, imageIndex, exc, exitCode, commandBuffers, recordedCommands, frameCount,
                   steps, lastCall>>
    /\ UNCHANGED syncVars
    /\ UNCHANGED deviceVars
    /\ UNCHANGED bufferVars
    /\ UNCHANGED teardownVars
    /\ UNCHANGED managerVars

Destroyed(h) == IF h = "null" THEN "null" ELSE "destroyed"

\* GraphicsPipeline::uniformBuffers / uniformBuffersMemory of the pipeline the
\* application builds: its constructor never calls createUniformBuffers
AppUniformBuffers == Vec(0, VK_NULL_HANDLE)

\* the calls of iteration i of the destructor's loop, in order; exists tells whether
\* the object the call is applied to was ever created
DtorLoopCalls(i) ==
    << [call |-> "vkDestroySemaphore", object |-> <<"renderFinishedSemaphores", i>>,
        exists |-> renderFinishedSemaphores[i] # "null"],
       [call |-> "vkDestroySemaphore", object |-> <<"imageAvailableSemaphores", i>>,
        exists |-> imageAvailableSemaphores[i] # "null"],
       [call |-> "vkDestroyFence", object |-> <<"inFlightFences", i>>,
        exists |-> inFlightFences[i] # "null"],
       [call |-> "vmaUnmapMemory", object |-> <<"uniformBuffersMemory", i>>,
        exists |-> i \in DOMAIN AppUniformBuffers],
       [call |-> "destroyBuffer", object |-> <<"uniformBuffers", i>>,
        exists |-> i \in DOMAIN AppUniformBuffers] >>

RECURSIVE DtorLoop(_, _)
\* iterations i .. N-1 of the destructor's loop when the read of uniformBuffersMemory
\* ends the process in iteration crashAt (crashAt = N: no iteration does)
DtorLoop(i, crashAt) ==
    IF i >= MAX_FRAMES_IN_FLIGHT
    THEN <<>>
    ELSE IF i = crashAt
    THEN SubSeq(DtorLoopCalls(i), 1, 4)
    ELSE DtorLoopCalls(i) \o DtorLoop(i + 1, crashAt)

\* what follows the loop: vkDestroyCommandPool (which frees the command buffers
\* allocated from the pool, then the pool), destroyBuffer of the vertex and index buffer
DtorTail ==
    [s \in 1 .. MAX_FRAMES_IN_FLIGHT |->
        [call |-> "vkDestroyCommandPool", object |-> <<"commandBuffers", s - 1>>, exists |-> TRUE]]
    \o << [call |-> "vkDestroyCommandPool", object |-> <<"commandPool", 0>>, exists |-> TRUE],
          [call |-> "destroyBuffer", object |-> <<"vertexBuffer", 0>>, exists |-> TRUE],
          [call |-> "destroyBuffer", object |-> <<"indexBuffer", 0>>, exists |-> TRUE] >>

\* the unique_ptr members of VulkanApplication, in declaration order
Members ==
    <<"windowInstance", "validationLayers", "vulkanInstanceCreator", "vulkanPhysicalDevice",
      "vulkanLogicalDevice", "swapChain", "graphicsPipeline">>

Reverse(seq) == [k \in 1 .. Len(seq) |-> seq[Len(seq) + 1 - k]]

\* destroyResources(): the resets, in order
DestroyResourcesOrder ==
    <<"graphicsPipeline", "swapChain", "vulkanLogicalDevice", "vulkanPhysicalDevice",
      "vulkanInstanceCreator", "windowInstance">>

\* the exception left the constructor of VulkanApplication
ConstructorFailed == exc # NoExc /\ frameCount = 0

\* the order in which the members are released: by destroyResources() and then the
\* member destructors when ~VulkanApplication runs, by the member destructors alone
\* (reverse declaration order) when the constructor threw
ReleaseOrder ==
    IF ConstructorFailed
    THEN Reverse(Members)
    ELSE DestroyResourcesOrder \o <<"validationLayers">>

\* ~GraphicsPipeline after its vkDeviceWaitIdle: the loop over the slots destroys the
\* semaphores and the fence and unmaps and destroys uniformBuffers[i]; then the command
\* pool (with its command buffers) and the buffers are destroyed and the remaining
\* members of the application are released. The vectors of uniform buffers are empty:
\* the read of element i either ends the process or yields a stray value.
DtorDestroy ==
    /\ pc = "destroy"
    /\ \E crashAt \in Slots \cup {MAX_FRAMES_IN_FLIGHT} :
        /\ inFlightFences' =
               [s \in Slots |-> IF s <= crashAt THEN Destroyed(inFlightFences[s]) ELSE inFlightFences[s]]
        /\ imageAvailableSemaphores' =
               [s \in Slots |-> IF s <= crashAt THEN Destroyed(imageAvailableSemaphores[s])
                                ELSE imageAvailableSemaphores[s]]
        /\ renderFinishedSemaphores' =
               [s \in Slots |-> IF s <= crashAt THEN Destroyed(renderFinishedSemaphores[s])
                                ELSE renderFinishedSemaphores[s]]
        /\ IF crashAt \in Slots
           THEN /\ teardownLog' = DtorLoop(0, crashAt)
                /\ pc' = "done"
                /\ exitCode' = "ABNORMAL_TERMINATION"
                /\ UNCHANGED <<commandBuffers, recordedCommands, commandPool, vertexBuffer,
                               indexBuffer, released>>
           ELSE /\ teardownLog' = DtorLoop(0, crashAt) \o DtorTail
                /\ commandBuffers' = [s \in Slots |-> "freed"]
                /\ recordedCommands' = [s \in Slots |-> <<>>]
                /\ commandPool' = "destroyed"
                /\ vertexBuffer' = "destroyed"
                /\ indexBuffer' = "destroyed"
                /\ released' = ReleaseOrder
                /\ pc' = "mainExit"
                /\ exitCode' = exitCode
    /\ UNCHANGED <<currentFrame, advances, frameIndex, imageIndex, exc, frameCount, steps, lastCall>>
    /\ UNCHANGED deviceVars
    /\ UNCHANGED indices
    /\ UNCHANGED managerVars

\* main: catch (const std::exception&) returns EXIT_FAILURE, otherwise EXIT_SUCCESS
MainExit ==
    /\ pc = "mainExit"
    /\ exitCode' = IF exc # NoExc THEN "EXIT_FAILURE" ELSE "EXIT_SUCCESS"
    /\ pc' = "done"
    /\ UNCHANGED <<currentFrame, advances, frameIndex, imageIndex, exc, commandBuffers, recordedCommands, frameCount, steps, lastCall>>
    /\ UNCHANGED syncVars
    /\ UNCHANGED deviceVars
    /\ UNCHANGED bufferVars
    /\ UNCHANGED teardownVars
    /\ UNCHANGED managerVars

\* ------------------------------------------------------------------------
\* The device and the presentation engine (Vulkan's execution of what drawFrame queued)

Live(h) == h \in {"signaled", "unsignaled"}

\* the presentation engine lets go of an acquired image: the semaphore given to the
\* acquire is signaled
SignalImageAvailable ==
    /\ \E a \in acquirePending :
        /\ Live(imageAvailableSemaphores[a.sem])
        /\ imageAvailableSemaphores' = [imageAvailableSemaphores EXCEPT ![a.sem] = "signaled"]
        /\ images' = [images EXCEPT ![a.image].ready = TRUE]
        /\ acquirePending' = acquirePending \ {a}
    /\ UNCHANGED cpuVars
    /\ UNCHANGED <<commandBuffers, recordedCommands, inFlightFences, renderFinishedSemaphores, gpuQueue, presentQueue, retired>>
    /\ UNCHANGED bufferVars
    /\ UNCHANGED teardownVars
    /\ UNCHANGED managerVars

\* the oldest submission passes its semaphore wait and starts writing its image
GpuBegin ==
    /\ gpuQueue # <<>>
    /\ Head(gpuQueue).phase = "queued"
    /\ imageAvailableSemaphores[Head(gpuQueue).waitSem] = "signaled"
    /\ imageAvailableSemaphores' = [imageAvailableSemaphores EXCEPT ![Head(gpuQueue).waitSem] = "unsignaled"]
    /\ gpuQueue' = [gpuQueue EXCEPT ![1].phase = "executing"]
    /\ UNCHANGED cpuVars
    /\ UNCHANGED <<commandBuffers, recordedCommands, inFlightFences, renderFinishedSemaphores, presentQueue,
                   acquirePending, images, retired>>
    /\ UNCHANGED bufferVars
    /\ UNCHANGED teardownVars
    /\ UNCHANGED managerVars

\* the oldest submission completes: its signal semaphore and its fence are signaled
GpuRetire ==
    /\ gpuQueue # <<>>
    /\ Head(gpuQueue).phase = "executing"
    /\ LET sub == Head(gpuQueue)
           rest == Tail(gpuQueue)
       IN /\ gpuQueue' = rest
          /\ renderFinishedSemaphores' = [renderFinishedSemaphores EXCEPT ![sub.signalSem] = "signaled"]
          /\ inFlightFences' = [inFlightFences EXCEPT ![sub.fence] = "signaled"]
          /\ retired' = retired \cup {sub.frame}
          /\ commandBuffers' =
                 IF commandBuffers[sub.cmd] = "pending" /\ \A k \in 1 .. Len(rest) : rest[k].cmd # sub.cmd
                 THEN [commandBuffers EXCEPT ![sub.cmd] = "executable"]
                 ELSE commandBuffers
    /\ UNCHANGED cpuVars
    /\ UNCHANGED <<imageAvailableSemaphores, presentQueue, acquirePending, images, recordedCommands>>
    /\ UNCHANGED bufferVars
    /\ UNCHANGED teardownVars
    /\ UNCHANGED managerVars

\* the oldest present request passes its semaphore wait: its image goes on display
PresentConsume ==
    /\ presentQueue # <<>>
    /\ renderFinishedSemaphores[Head(presentQueue).waitSem] = "signaled"
    /\ renderFinishedSemaphores' = [renderFinishedSemaphores EXCEPT ![Head(presentQueue).waitSem] = "unsignaled"]
    /\ images' = [images EXCEPT ![Head(presentQueue).image].st = "displayed"]
    /\ presentQueue' = Tail(presentQueue)
    /\ UNCHANGED cpuVars
    /\ UNCHANGED <<commandBuffers, recordedCommands, inFlightFences, imageAvailableSemaphores, gpuQueue, acquirePending, retired>>
    /\ UNCHANGED bufferVars
    /\ UNCHANGED teardownVars
    /\ UNCHANGED managerVars

\* a displayed image is replaced on screen and can be acquired again
ImageRelease ==
    /\ \E i \in Images :
        /\ images[i].st = "displayed"
        /\ images' = [images EXCEPT ![i] = FreeImage]
    /\ UNCHANGED cpuVars
    /\ UNCHANGED syncVars
    /\ UNCHANGED <<commandBuffers, recordedCommands, gpuQueue, presentQueue, acquirePending, retired>>
    /\ UNCHANGED bufferVars
    /\ UNCHANGED teardownVars
    /\ UNCHANGED managerVars

\* ------------------------------------------------------------------------
\* CommandBufferManager (graphics.cpp)

\* vkCreate...: a new handle is alive on the device
DeviceCreate(d, n) == [d EXCEPT !.live = @ \cup (d.next .. (d.next + n - 1)), !.next = @ + n]

\* vkDestroy... / vkFreeCommandBuffers of handle h
DeviceDestroy(d, h) ==
    [d EXCEPT !.live = @ \ {h}, !.log = Append(@, [handle |-> h, live |-> h \in d.live])]

RECURSIVE DeviceDestroyAll(_, _)
\* the handles of hs that are not null are destroyed in order
DeviceDestroyAll(d, hs) ==
    IF hs = <<>>
    THEN d
    ELSE DeviceDestroyAll(IF Head(hs) = VK_NULL_HANDLE THEN d ELSE DeviceDestroy(d, Head(hs)),
                          Tail(hs))

\* CommandBufferManager::CommandBufferManager up to createCommandPool: the three
\* vectors are resized, then vkCreateCommandPool
CbmCreateCommandPool ==
    /\ mpc = "cbmCtor"
    /\ \E r \in CallResults :
        LET resized == [cbm EXCEPT !.imageAvailableSemaphores = Vec(MAX_FRAMES_IN_FLIGHT, VK_NULL_HANDLE),
                                   !.renderFinishedSemaphores = Vec(MAX_FRAMES_IN_FLIGHT, VK_NULL_HANDLE),
                                   !.inFlightFences = Vec(MAX_FRAMES_IN_FLIGHT, VK_NULL_HANDLE)]
        IN IF r = VK_SUCCESS
           THEN /\ device' = DeviceCreate(device, 1)
                /\ cbm' = [resized EXCEPT !.commandPool = device.next]
                /\ mpc' = "cbmSync"
                /\ mexc' = mexc
           ELSE /\ cbm' = resized
                /\ mexc' = RuntimeError("Failed to create command pool!")
                /\ mpc' = "startupFailed"
                /\ UNCHANGED device
    /\ UNCHANGED <<bm, gp, allocator, memory, lastAccess, lastUpdate, outcomes>>
    /\ UNCHANGED frameVars

\* the number of creations that come before the first failure at failAt
CreatedCount(failAt) ==
    Cardinality({c \in SyncCreations : CreatedBefore(c[1], c[2], failAt)})

\* the handle creation <<i, k>> stores, the first handle being first
SyncHandle(first, i, k, failAt) ==
    IF CreatedBefore(i, k, failAt) THEN first + 3 * i + (k - 1) ELSE VK_NULL_HANDLE

\* CommandBufferManager::createSyncObjects: createSemaphore, createSemaphore,
\* createFence per slot; the first creation that fails throws
CbmCreateSyncObjects ==
    /\ mpc = "cbmSync"
    /\ \E failAt \in SyncCreations \cup {<<>>} :
        /\ device' = DeviceCreate(device, CreatedCount(failAt))
        /\ cbm' = [cbm EXCEPT
                      !.imageAvailableSemaphores = [i \in Slots |-> SyncHandle(device.next, i, 1, failAt)],
                      !.renderFinishedSemaphores = [i \in Slots |-> SyncHandle(device.next, i, 2, failAt)],
                      !.inFlightFences = [i \in Slots |-> SyncHandle(device.next, i, 3, failAt)]]
        /\ IF failAt = <<>>
           THEN mpc' = "cbmBuffers" /\ mexc' = mexc
           ELSE /\ mpc' = "startupFailed"
                /\ mexc' = IF failAt[2] = 3
                           THEN RuntimeError("failed to create fence!")
                           ELSE RuntimeError("failed to create semaphore!")
    /\ UNCHANGED <<bm, gp, allocator, memory, lastAccess, lastUpdate, outcomes>>
    /\ UNCHANGED frameVars

\* CommandBufferManager::createCommandBuffers: vkAllocateCommandBuffers of
\* MAX_FRAMES_IN_FLIGHT buffers; a failed allocation leaves every entry null
CbmCreateCommandBuffers ==
    /\ mpc = "cbmBuffers"
    /\ \E r \in CallResults :
        IF r = VK_SUCCESS
        THEN /\ device' = DeviceCreate(device, MAX_FRAMES_IN_FLIGHT)
             /\ cbm' = [cbm EXCEPT !.commandBuffers = [i \in Slots |-> device.next + i]]
             /\ mpc' = "cbmReady"
             /\ mexc' = mexc
        ELSE /\ cbm' = [cbm EXCEPT !.commandBuffers = Vec(MAX_FRAMES_IN_FLIGHT, VK_NULL_HANDLE)]
             /\ mexc' = RuntimeError("Failed to create command pool!")
             /\ mpc' = "startupFailed"
             /\ UNCHANGED device
    /\ UNCHANGED <<bm, gp, allocator, memory, lastAccess, lastUpdate, outcomes>>
    /\ UNCHANGED frameVars

\* the per-slot accessors of CommandBufferManager and the vector each one indexes
AccessorNames ==
    {"getCommandBuffer", "getImageAvailableSemaphore", "getRenderFinishedSemaphore", "getInFlightFence"}

AccessedVector(fn) ==
    CASE fn = "getCommandBuffer" -> cbm.commandBuffers
      [] fn = "getImageAvailableSemaphore" -> cbm.imageAvailableSemaphores
      [] fn = "getRenderFinishedSemaphore" -> cbm.renderFinishedSemaphores
      [] fn = "getInFlightFence" -> cbm.inFlightFences

\* the frame indices a caller passes: the slots, N and N + 1
CallerIndices == 0 .. (MAX_FRAMES_IN_FLIGHT + 1)

\* vec[i] of a std::vector: beyond its size the read yields a stray value
VectorRead(vec, i, stray) == IF i \in DOMAIN vec THEN vec[i] ELSE stray

\* getCommandBuffer .. getInFlightFence: if (vec[frameIndex] == VK_NULL_HANDLE) throw
\* std::runtime_error; return vec[frameIndex]
CbmAccessor ==
    /\ mpc \in {"cbmReady", "cbmAccessed"}
    /\ \E fn \in AccessorNames, i \in CallerIndices, stray \in StrayValues :
        LET value == VectorRead(AccessedVector(fn), i, stray)
        IN lastAccess' = [fn |-> fn, index |-> i,
                          outOfBounds |-> i \notin DOMAIN AccessedVector(fn),
                          outcome |-> IF value = VK_NULL_HANDLE THEN "std::runtime_error" ELSE "returned",
                          value |-> value]
    /\ mpc' = "cbmAccessed"
    /\ UNCHANGED <<cbm, bm, gp, device, allocator, memory, mexc, lastUpdate, outcomes>>
    /\ UNCHANGED frameVars

RECURSIVE SyncHandlesFrom(_)
\* the semaphores and the fence of slots i .. N-1 in the order the destructor visits them
SyncHandlesFrom(i) ==
    IF i >= MAX_FRAMES_IN_FLIGHT
    THEN <<>>
    ELSE <<cbm.imageAvailableSemaphores[i], cbm.renderFinishedSemaphores[i], cbm.inFlightFences[i]>>
             \o SyncHandlesFrom(i + 1)

\* CommandBufferManager::~CommandBufferManager: the command buffers are freed, then
\* the semaphores and fences that are not null are destroyed, then the command pool
CbmDestructor ==
    /\ mpc \in {"cbmReady", "cbmAccessed", "bmDestroyed", "gpUniformDone", "gpUniformFailed",
               "gpDestroyed"}
    /\ device' = DeviceDestroyAll(device,
                     (IF cbm.commandBuffers # Vec(0, VK_NULL_HANDLE) /\ cbm.commandPool # VK_NULL_HANDLE
                      THEN Elements(cbm.commandBuffers)
                      ELSE <<>>)
                     \o SyncHandlesFrom(0) \o <<cbm.commandPool>>)
    /\ mpc' = "done"
    /\ UNCHANGED <<cbm, bm, gp, allocator, memory, mexc, lastAccess, lastUpdate, outcomes>>
    /\ UNCHANGED frameVars

\* ------------------------------------------------------------------------
\* AllocatorManager: allocate-buffer, map / unmap, free

\* createBuffer succeeded: the buffer a.next is allocated
CreateBuffer(a) ==
    [a EXCEPT !.live = @ \cup {a.next}, !.next = @ + 1, !.outstanding = @ + 1]

\* mapMemory succeeded on buffer h
MapMemory(a, h) == [a EXCEPT !.mapped = @ \cup {h}]

\* unmapMemory / vmaUnmapMemory on buffer h
UnmapMemory(a, h) ==
    [a EXCEPT !.mapped = @ \ {h},
              !.log = Append(@, [op |-> "unmap", buffer |-> h, live |-> h \in a.live,
                                 mapped |-> h \in a.mapped])]

\* destroyBuffer(h, allocation): an allocated buffer is freed; for a handle that is
\* not an allocated buffer the count is reduced by dec (0 or 1)
DestroyBuffer(a, h, dec) ==
    [a EXCEPT !.live = @ \ {h},
              !.mapped = @ \ {h},
              !.outstanding = IF h \in a.live THEN @ - 1 ELSE @ - dec,
              !.log = Append(@, [op |-> "destroy", buffer |-> h, live |-> h \in a.live,
                                 mapped |-> h \in a.mapped])]

\* the memory of the buffers that are allocated
Release(mem, a) == [h \in (DOMAIN mem) \cap a.live |-> mem[h]]

\* host-visible memory just mapped
FreshBytes == [k \in 1 .. UboSize |-> 0]

\* ------------------------------------------------------------------------
\* BufferManager (graphics.cpp)

\* BufferManager::BufferManager up to createVertexBuffer: uniformBuffersMemory and
\* uniformBuffers are resized; vertexBuffer and indexBuffer have no initialiser
BufferManagerCtor ==
    /\ mpc = "cbmReady"
    /\ bm' = [bm EXCEPT !.uniformBuffers = Vec(MAX_FRAMES_IN_FLIGHT, VK_NULL_HANDLE)]
    /\ mpc' = "bmVertex"
    /\ UNCHANGED <<cbm, gp, device, allocator, memory, mexc, lastAccess, lastUpdate, outcomes>>
    /\ UNCHANGED frameVars

\* the step of createVertexBuffer / createIndexBuffer at which an exception is caught
UploadOutcomes == {"stagingFails", "mapFails", "destinationFails", "copyFails", "ok"}

\* the allocator after createVertexBuffer / createIndexBuffer has met outcome o
UploadAllocator(a, o) ==
    LET staging == a.next
        a1 == CreateBuffer(a)
        a2 == UnmapMemory(MapMemory(a1, staging), staging)
        dest == a2.next
        a3 == CreateBuffer(a2)
    IN CASE o = "stagingFails" -> a
         [] o = "mapFails" -> DestroyBuffer(a1, staging, 0)
         [] o = "destinationFails" -> DestroyBuffer(a2, staging, 0)
         [] o = "copyFails" -> DestroyBuffer(DestroyBuffer(a3, staging, 0), dest, 0)
         [] o = "ok" -> DestroyBuffer(a3, staging, 0)

\* the values the destination member can hold after outcome o: the handle createBuffer
\* stored, or on a failed createBuffer the old value or null
UploadMember(a, old, o) ==
    CASE o \in {"stagingFails", "mapFails"} -> {old}
      [] o = "destinationFails" -> {old, VK_NULL_HANDLE}
      [] o \in {"copyFails", "ok"} -> {a.next + 1}

\* BufferManager::createVertexBuffer; the constructor drops the bool it returns
BmCreateVertexBuffer ==
    /\ mpc = "bmVertex"
    /\ \E o \in UploadOutcomes :
        /\ allocator' = UploadAllocator(allocator, o)
        /\ \E h \in UploadMember(allocator, bm.vertexBuffer, o) : bm' = [bm EXCEPT !.vertexBuffer = h]
        /\ outcomes' = [outcomes EXCEPT !.vertex = o]
    /\ mpc' = "bmIndex"
    /\ UNCHANGED <<cbm, gp, device, memory, mexc, lastAccess, lastUpdate>>
    /\ UNCHANGED frameVars

\* BufferManager::createIndexBuffer; the constructor drops the bool it returns
BmCreateIndexBuffer ==
    /\ mpc = "bmIndex"
    /\ \E o \in UploadOutcomes :
        /\ allocator' = UploadAllocator(allocator, o)
        /\ \E h \in UploadMember(allocator, bm.indexBuffer, o) : bm' = [bm EXCEPT !.indexBuffer = h]
        /\ outcomes' = [outcomes EXCEPT !.index = o]
    /\ mpc' = "bmUniform"
    /\ UNCHANGED <<cbm, gp, device, memory, mexc, lastAccess, lastUpdate>>
    /\ UNCHANGED frameVars

\* the points at which the loop of createUniformBuffers can fail
UniformFailures == {<<i, step>> : i \in Slots, step \in {"create", "map"}}

RECURSIVE DestroyBuffers(_, _, _, _)
\* allocatorManager.destroyBuffer(v[j], ...) for j = from .. to - 1
DestroyBuffers(a, v, from, to) ==
    IF from >= to THEN a ELSE DestroyBuffers(DestroyBuffer(a, v[from], 0), v, from + 1, to)

RECURSIVE BmUniformLoop(_, _, _)
\* iterations i .. N-1 of the loop of BufferManager::createUniformBuffers, from state st
BmUniformLoop(i, st, failAt) ==
    IF i >= MAX_FRAMES_IN_FLIGHT
    THEN [st EXCEPT !.ok = TRUE]
    ELSE IF failAt = <<i, "create">>
    THEN [st EXCEPT !.allocator = DestroyBuffers(st.allocator, st.uniformBuffers, 0, i),
                    !.ok = FALSE]
    ELSE LET h == st.allocator.next
             created == [st EXCEPT !.allocator = CreateBuffer(st.allocator),
                                   !.uniformBuffers[i] = h]
         IN IF failAt = <<i, "map">>
            THEN [created EXCEPT
                     !.allocator = DestroyBuffers(created.allocator, created.uniformBuffers, 0, i + 1),
                     !.ok = FALSE]
            ELSE BmUniformLoop(i + 1,
                               [created EXCEPT !.allocator = MapMemory(created.allocator, h),
                                               !.uniformBuffersMapped[i] = h,
                                               !.memory = @ @@ (h :> FreshBytes)],
                               failAt)

\* BufferManager::createUniformBuffers; the constructor drops the bool it returns
BmCreateUniformBuffers ==
    /\ mpc = "bmUniform"
    /\ \E failAt \in UniformFailures \cup {<<>>} :
        LET st == BmUniformLoop(0,
                      [allocator |-> allocator,
                       uniformBuffers |-> Vec(MAX_FRAMES_IN_FLIGHT, VK_NULL_HANDLE),
                       uniformBuffersMapped |-> Vec(MAX_FRAMES_IN_FLIGHT, VK_NULL_HANDLE),
                       memory |-> memory,
                       ok |-> FALSE],
                      failAt)
        IN /\ allocator' = st.allocator
           /\ bm' = [bm EXCEPT !.uniformBuffers = st.uniformBuffers,
                               !.uniformBuffersMapped = st.uniformBuffersMapped]
           /\ memory' = Release(st.memory, st.allocator)
           /\ outcomes' = [outcomes EXCEPT !.uniform = failAt]
    /\ mpc' = "bmReady"
    /\ UNCHANGED <<cbm, gp, device, mexc, lastAccess, lastUpdate>>
    /\ UNCHANGED frameVars

\* faulty variant: the range test lets the index N through
UpdateOutOfRange_OffByOne(f) == f > MAX_FRAMES_IN_FLIGHT

\* if (currentFrame >= MAX_FRAMES_IN_FLIGHT) throw std::out_of_range
UpdateOutOfRange(f) == f >= MAX_FRAMES_IN_FLIGHT

\* faulty variant: the copy stops one byte short
Memcpy_OneShort(dst, src, n) == [k \in DOMAIN dst |-> IF k <= n - 1 THEN src[k] ELSE dst[k]]

\* memcpy(dst, src, n): the first n bytes of dst become those of src
Memcpy(dst, src, n) == [k \in DOMAIN dst |-> IF k <= n THEN src[k] ELSE dst[k]]

\* BufferManager::updateUniformBuffer(currentFrame, ubo). A copy through a pointer
\* whose buffer is no longer allocated lands outside the memory of every buffer.
BmUpdateUniformBuffer ==
    /\ mpc = "bmReady"
    /\ \E f \in CallerIndices, ubo \in UboValues, stray \in StrayValues :
        LET data == IF UpdateOutOfRange(f)
                    THEN VK_NULL_HANDLE
                    ELSE VectorRead(bm.uniformBuffersMapped, f, stray)
            outcome == IF UpdateOutOfRange(f) THEN "std::out_of_range"
                       ELSE IF data = VK_NULL_HANDLE THEN "std::runtime_error"
                       ELSE "written"
        IN /\ lastUpdate' = [slot |-> f, data |-> ubo, outcome |-> outcome,
                             target |-> data,
                             targetLive |-> data \in allocator.live \cap allocator.mapped]
           /\ memory' = IF outcome = "written" /\ data \in DOMAIN memory
                        THEN [memory EXCEPT ![data] = Memcpy(@, ubo, UboSize)]
                        ELSE memory
    /\ UNCHANGED <<mpc, cbm, bm, gp, device, allocator, mexc, lastAccess, outcomes>>
    /\ UNCHANGED frameVars

\* the value a read of member m yields
MemberRead(m, stray) == IF m = Indeterminate THEN stray ELSE m

RECURSIVE BmDestroyUniform(_, _, _)
\* iterations i .. N-1 of the destructor's loop over the uniform buffers
BmDestroyUniform(i, a, dec) ==
    IF i >= MAX_FRAMES_IN_FLIGHT
    THEN a
    ELSE IF bm.uniformBuffers[i] = VK_NULL_HANDLE
    THEN BmDestroyUniform(i + 1, a, dec)
    ELSE BmDestroyUniform(i + 1,
             DestroyBuffer(IF bm.uniformBuffersMapped[i] # VK_NULL_HANDLE
                           THEN UnmapMemory(a, bm.uniformBuffers[i])
                           ELSE a,
                           bm.uniformBuffers[i], dec),
             dec)

\* the destroyBuffer the destructor applies to a member holding h, if h is not null
DestroyMember(a, h, dec) == IF h = VK_NULL_HANDLE THEN a ELSE DestroyBuffer(a, h, dec)

\* BufferManager::~BufferManager: the uniform buffers, the vertex buffer, the index buffer
BmDestructor ==
    /\ mpc = "bmReady"
    /\ \E dec \in {0, 1}, sv \in StrayValues, si \in StrayValues :
        LET a1 == BmDestroyUniform(0, allocator, dec)
            a2 == DestroyMember(a1, MemberRead(bm.vertexBuffer, sv), dec)
            a3 == DestroyMember(a2, MemberRead(bm.indexBuffer, si), dec)
        IN /\ allocator' = a3
           /\ memory' = Release(memory, a3)
    /\ mpc' = "bmDestroyed"
    /\ UNCHANGED <<cbm, bm, gp, device, mexc, lastAccess, lastUpdate, outcomes>>
    /\ UNCHANGED frameVars

\* ------------------------------------------------------------------------
\* GraphicsPipeline::createUniformBuffers (graphics_pipeline.cpp)

RECURSIVE GpUniformLoop(_, _, _)
\* iterations i .. N-1 of the loop: the exception of createBuffer leaves the function,
\* the result of vmaMapMemory is dropped
GpUniformLoop(i, st, failAt) ==
    IF i >= MAX_FRAMES_IN_FLIGHT
    THEN [st EXCEPT !.ok = TRUE]
    ELSE IF failAt = <<i, "create">>
    THEN [st EXCEPT !.ok = FALSE]
    ELSE LET h == st.allocator.next
             created == [st EXCEPT !.allocator = CreateBuffer(st.allocator),
                                   !.uniformBuffers[i] = h]
         IN IF failAt = <<i, "map">>
            THEN GpUniformLoop(i + 1, created, failAt)
            ELSE GpUniformLoop(i + 1,
                               [created EXCEPT !.allocator = MapMemory(created.allocator, h),
                                               !.uniformBuffersMapped[i] = h,
                                               !.memory = @ @@ (h :> FreshBytes)],
                               failAt)

GpCreateUniformBuffers ==
    /\ mpc = "cbmReady"
    /\ \E failAt \in UniformFailures \cup {<<>>} :
        LET st == GpUniformLoop(0,
                      [allocator |-> allocator,
                       uniformBuffers |-> Vec(MAX_FRAMES_IN_FLIGHT, VK_NULL_HANDLE),
                       uniformBuffersMapped |-> Vec(MAX_FRAMES_IN_FLIGHT, VK_NULL_HANDLE),
                       memory |-> memory,
                       ok |-> FALSE],
                      failAt)
        IN /\ allocator' = st.allocator
           /\ gp' = [gp EXCEPT !.uniformBuffers = st.uniformBuffers,
                               !.uniformBuffersMapped = st.uniformBuffersMapped]
           /\ memory' = st.memory
           /\ outcomes' = [outcomes EXCEPT !.uniform = failAt]
           /\ IF st.ok
              THEN mpc' = "gpUniformDone" /\ mexc' = mexc
              ELSE mpc' = "gpUniformFailed" /\ mexc' = RuntimeError("failed to create buffer!")
    /\ UNCHANGED <<cbm, bm, device, lastAccess, lastUpdate>>
    /\ UNCHANGED frameVars

\* ------------------------------------------------------------------------
\* GraphicsPipeline (graphics.cpp): framebuffers and their accessors

\* the points at which the loop of createFrameBuffers can fail
FramebufferFailures == Images

\* GraphicsPipeline::createFrameBuffers: the vector is resized to the number of image
\* views, then one framebuffer is created per image view; the first vkCreateFramebuffer
\* that fails throws
GpCreateFrameBuffers ==
    /\ mpc = "cbmReady"
    /\ \E failAt \in FramebufferFailures \cup {NumImages} :
        /\ device' = DeviceCreate(device, failAt)
        /\ gp' = [gp EXCEPT !.framebuffers =
                      [i \in Images |-> IF i < failAt THEN device.next + i ELSE VK_NULL_HANDLE]]
        /\ mexc' = IF failAt \in FramebufferFailures
                   THEN RuntimeError("failed to create framebuffer!")
                   ELSE mexc
    /\ mpc' = "gpFramebuffers"
    /\ UNCHANGED <<cbm, bm, allocator, memory, lastAccess, lastUpdate, outcomes>>
    /\ UNCHANGED frameVars

\* size(framebuffers)
Size(vec) == Cardinality(DOMAIN vec)

\* whether getFrameBuffer / getFrameBuffers throws for index i: the std::runtime_error
\* objects of the two tests are constructed and dropped (there is no throw)
FrameIndexRejected(vec, i) == FALSE

\* the frame indices a caller passes to getFrameBuffer: the images, M and M + 1
FramebufferIndices == 0 .. (NumImages + 1)

\* GraphicsPipeline::getFrameBuffer(frameIndex): return framebuffers[frameIndex]
GpGetFrameBuffer ==
    /\ mpc \in {"cbmReady", "gpFramebuffers", "gpAccessed"}
    /\ \E i \in FramebufferIndices, stray \in StrayValues :
        lastAccess' = [fn |-> "getFrameBuffer", index |-> i,
                       outOfBounds |-> i \notin DOMAIN gp.framebuffers,
                       outcome |-> IF FrameIndexRejected(gp.framebuffers, i)
                                   THEN "std::runtime_error" ELSE "returned",
                       value |-> IF FrameIndexRejected(gp.framebuffers, i)
                                 THEN VK_NULL_HANDLE
                                 ELSE VectorRead(gp.framebuffers, i, stray)]
    /\ mpc' = "gpAccessed"
    /\ UNCHANGED <<cbm, bm, gp, device, allocator, memory, mexc, lastUpdate, outcomes>>
    /\ UNCHANGED frameVars

\* GraphicsPipeline::getFrameBuffers(): return framebuffers (value: its size)
GpGetFrameBuffers ==
    /\ mpc \in {"cbmReady", "gpFramebuffers", "gpAccessed"}
    /\ lastAccess' = [fn |-> "getFrameBuffers", index |-> 0, outOfBounds |-> FALSE,
                      outcome |-> IF FrameIndexRejected(gp.framebuffers, 0)
                                  THEN "std::runtime_error" ELSE "returned",
                      value |-> Size(gp.framebuffers)]
    /\ mpc' = "gpAccessed"
    /\ UNCHANGED <<cbm, bm, gp, device, allocator, memory, mexc, lastUpdate, outcomes>>
    /\ UNCHANGED frameVars

\* GraphicsPipeline::~GraphicsPipeline (graphics.cpp): the framebuffers that are not
\* null are destroyed
GpDestructor ==
    /\ mpc \in {"gpFramebuffers", "gpAccessed"}
    /\ device' = DeviceDestroyAll(device, Elements(gp.framebuffers))
    /\ mpc' = "gpDestroyed"
    /\ UNCHANGED <<cbm, bm, gp, allocator, memory, mexc, lastAccess, lastUpdate, outcomes>>
    /\ UNCHANGED frameVars

\* ------------------------------------------------------------------------

Next ==
    \/ CreateSyncObjects
    \/ RunLoop
    \/ WaitForFences
    \/ ResetFences
    \/ AcquireNextImage
    \/ ResetCommandBuffer
    \/ RecordCommandBuffer
    \/ QueueSubmit
    \/ QueuePresent
    \/ RunWaitIdle
    \/ DestroyResources
    \/ DtorWaitIdle
    \/ DtorDestroy
    \/ MainExit
    \/ SignalImageAvailable
    \/ GpuBegin
    \/ GpuRetire
    \/ PresentConsume
    \/ ImageRelease

Spec == Init /\ [][Next]_vars

\* the statements of the CPU thread (main, run, drawFrame and the destructors)
CpuStep ==
    \/ CreateSyncObjects
    \/ RunLoop
    \/ WaitForFences
    \/ ResetFences
    \/ AcquireNextImage
    \/ ResetCommandBuffer
    \/ RecordCommandBuffer
    \/ QueueSubmit
    \/ QueuePresent
    \/ RunWaitIdle
    \/ DestroyResources
    \/ DtorWaitIdle
    \/ DtorDestroy
    \/ MainExit

\* the frame loop with a thread that keeps running, a device that eventually executes
\* and retires what is queued and a presentation engine that eventually signals,
\* consumes and releases
LiveSpec ==
    /\ Init
    /\ [][Next]_vars
    /\ WF_vars(CpuStep)
    /\ WF_vars(SignalImageAvailable)
    /\ WF_vars(GpuBegin)
    /\ WF_vars(GpuRetire)
    /\ WF_vars(PresentConsume)
    /\ WF_vars(ImageRelease)

\* a client of the managers of graphics.cpp: it builds a CommandBufferManager, then
\* either calls its accessors, or builds, updates and destroys a BufferManager, or has
\* the uniform buffers created the way graphics_pipeline.cpp does; then it destroys
\* the CommandBufferManager
ManagerNext ==
    \/ CbmCreateCommandPool
    \/ CbmCreateSyncObjects
    \/ CbmCreateCommandBuffers
    \/ CbmAccessor
    \/ BufferManagerCtor
    \/ BmCreateVertexBuffer
    \/ BmCreateIndexBuffer
    \/ BmCreateUniformBuffers
    \/ BmUpdateUniformBuffer
    \/ BmDestructor
    \/ GpCreateUniformBuffers
    \/ GpCreateFrameBuffers
    \/ GpGetFrameBuffer
    \/ GpGetFrameBuffers
    \/ GpDestructor
    \/ CbmDestructor

\* a client that constructs, uses and destroys the managers of graphics.cpp
ManagerSpec == Init /\ [][ManagerNext]_vars

TypeOK ==
    /\ currentFrame \in Slots
    /\ frameIndex \in Slots
    /\ imageIndex \in Images \cup {NoImage}
    /\ frameCount \in 0 .. MaxFrames

\* ------------------------------------------------------------------------
\* Claims

\* the unretired submissions that use the command buffer and the fence of slot s
Unretired(s) == {k \in 1 .. Len(gpuQueue) : gpuQueue[k].cmd = s}

\* C1: the CPU never resets or re-records the command buffer of slot s while a
\* submission of slot s is still unretired: whenever drawFrame has reset or recorded
\* the command buffer of its slot and not yet submitted it, no submission of that
\* slot is left on the device.
C1_NoReuseWhilePending ==
    \A s \in Slots : (frameIndex = s /\ pc \in {"record", "submit"}) => Unretired(s) = {}

\* the slot of the n-th drawFrame iteration (n = 1, 2, ...)
SlotOf(n) == (n - 1) % MAX_FRAMES_IN_FLIGHT

\* C2: at most N = MAX_FRAMES_IN_FLIGHT frames have GPU work that is submitted and
\* not yet retired: no slot has more than one unretired submission, so the graphics
\* queue never holds more than N of them.
C2_AtMostNInFlight ==
    /\ \A s \in Slots : Cardinality(Unretired(s)) <= 1
    /\ Len(gpuQueue) <= MAX_FRAMES_IN_FLIGHT

\* C3: when waitForFences(s) has returned in an iteration that reuses slot s, the
\* submission made for slot s by the previous iteration on that slot (N iterations
\* earlier) has completed and signalled the fence.
C3_WaitReturnsAfterPriorSubmission ==
    (pc = "reset" /\ frameCount > MAX_FRAMES_IN_FLIGHT)
        => (frameCount - MAX_FRAMES_IN_FLIGHT) \in retired

\* C4: resetFences(s) follows the return of waitForFences(s) in the same iteration,
\* the fence is not reset while a submission that will signal it is pending, and the
\* fence is unsignaled from its reset until the slot's command buffer is resubmitted.
C4_ResetAfterWaitBeforeSubmit ==
    /\ pc = "reset" => (steps = <<"WAIT">> /\ lastCall.call = "vkWaitForFences")
    /\ pc = "acquire" =>
           (lastCall.call = "vkResetFences"
            /\ \A k \in 1 .. Len(gpuQueue) : gpuQueue[k].fence # frameIndex)
    /\ pc \in {"acquire", "resetCommandBuffer", "record", "submit"} =>
           inFlightFences[frameIndex] = "unsignaled"

\* C5: after createSyncObjects has succeeded every slot's fence is signaled until the
\* slot's first resetFences, so the first waitForFences of every slot finds its fence
\* signaled and does not block.
C5_FencesCreatedSignaled ==
    \A s \in Slots :
        (pc \notin {"createSyncObjects", "unwind", "dtorWaitIdle", "destroy", "mainExit", "done"}
         /\ (frameCount <= s \/ (frameCount = s + 1 /\ pc \in {"wait", "reset"})))
            => inFlightFences[s] = "signaled"

C5_Witness ==
    /\ pc = "reset"
    /\ frameCount = MAX_FRAMES_IN_FLIGHT
    /\ frameIndex = MAX_FRAMES_IN_FLIGHT - 1
    /\ lastCall = [call |-> "vkWaitForFences", result |-> VK_SUCCESS]
    /\ inFlightFences[frameIndex] = "signaled"

\* the steps a prefix of the iteration has performed when the thread is at p
StepsAt(p) ==
    CASE p = "wait" -> 0
      [] p \in {"reset", "acquire"} -> 1
      [] p \in {"resetCommandBuffer", "record"} -> 2
      [] p = "submit" -> 3
      [] p = "present" -> 4
      [] OTHER -> 5

\* C6: a drawFrame iteration performs WAIT, ACQUIRE, RECORD, SUBMIT, PRESENT once each
\* and in this order (an iteration that has returned has performed exactly these five),
\* and it takes nothing from the iteration before it but the frame-slot counter: its
\* slot is the counter's value and the image it records, submits and presents is the
\* one it acquired itself.
C6_StepsInOrder ==
    /\ (pc \in {"loop", "runWaitIdle", "returned"} /\ frameCount > 0) => steps = FrameOrder
    /\ pc \in {"wait", "reset", "acquire", "resetCommandBuffer", "record", "submit", "present"} =>
           /\ steps = SubSeq(FrameOrder, 1, StepsAt(pc))
           /\ frameIndex = currentFrame
           /\ currentFrame = SlotOf(frameCount)
    /\ pc \in {"resetCommandBuffer", "record", "submit", "present"} =>
           /\ imageIndex \in Images
           /\ images[imageIndex].st = "acquired"
           /\ images[imageIndex].frame = frameCount

C6_Witness ==
    /\ pc = "loop"
    /\ frameCount = MAX_FRAMES_IN_FLIGHT + 1
    /\ steps = FrameOrder
    /\ currentFrame = 1

\* C7: a submission writes its image only after the image-available signal of its own
\* frame's acquire, an image goes on display only after its own frame's submission has
\* completed, and the acquire, the submission and the present of a frame use the
\* semaphores of the frame's slot.
C7_SemaphoreOrdering ==
    /\ \A k \in 1 .. Len(gpuQueue) :
           /\ gpuQueue[k].waitSem = SlotOf(gpuQueue[k].frame)
           /\ gpuQueue[k].signalSem = SlotOf(gpuQueue[k].frame)
           /\ gpuQueue[k].phase = "executing" =>
                  /\ images[gpuQueue[k].image].frame = gpuQueue[k].frame
                  /\ images[gpuQueue[k].image].ready
    /\ \A a \in acquirePending : a.sem = SlotOf(a.frame)
    /\ \A k \in 1 .. Len(presentQueue) : presentQueue[k].waitSem = SlotOf(presentQueue[k].frame)
    /\ \A i \in Images : images[i].st = "displayed" => images[i].frame \in retired

Teardown == {"unwind", "dtorWaitIdle", "destroy", "mainExit", "done"}

StepOfCall(c) ==
    CASE c = "vkAcquireNextImageKHR" -> "ACQUIRE"
      [] c = "vkQueueSubmit" -> "SUBMIT"
      [] c = "vkQueuePresentKHR" -> "PRESENT"
      [] OTHER -> "none"

\* C9: when vkAcquireNextImageKHR, vkQueueSubmit or vkQueuePresentKHR returns anything
\* but VK_SUCCESS, drawFrame raises std::runtime_error at that step, the step is the
\* last one the frame performs, the slot counter is not advanced, the thread goes to
\* teardown and main does not exit with EXIT_SUCCESS; no frame is started after it.
C9_FailureIsFatal ==
    (lastCall.call \in {"vkAcquireNextImageKHR", "vkQueueSubmit", "vkQueuePresentKHR"}
     /\ lastCall.result # VK_SUCCESS)
        => /\ pc \in Teardown
           /\ exc.type = "std::runtime_error"
           /\ steps = SubSeq(FrameOrder, 1, Len(steps))
           /\ steps[Len(steps)] = StepOfCall(lastCall.call)
           /\ currentFrame = SlotOf(frameCount)
           /\ pc = "done" => exitCode # "EXIT_SUCCESS"

C9_Witness ==
    /\ pc = "done"
    /\ exitCode = "EXIT_FAILURE"
    /\ lastCall = [call |-> "vkQueueSubmit", result |-> VK_ERROR_OUT_OF_HOST_MEMORY]
    /\ steps = <<"WAIT", "ACQUIRE", "RECORD", "SUBMIT">>
    /\ frameCount = 2

\* C10: the error raised for a stale (out-of-date) surface at acquire or at present is
\* one the caller can tell from the error raised for a fatal failure of the same call.
C10_StaleDistinct ==
    /\ (pc \in Teardown /\ lastCall.call = "vkAcquireNextImageKHR" /\ lastCall.result \in StaleResults)
           => \A r \in FatalResults : exc # AcquireException(r)
    /\ (pc \in Teardown /\ lastCall.call = "vkQueuePresentKHR" /\ lastCall.result \in StaleResults)
           => \A r \in FatalResults : exc # PresentException(r)

\* the buffers an upload that met outcome o leaves allocated, its destination being h
KeptByUpload(o, h) == IF o = "ok" THEN {h} ELSE {}

\* C11: for every outcome of the upload steps, createVertexBuffer / createIndexBuffer
\* leaves only the destination of a successful upload allocated (the staging buffer is
\* always freed, the destination is freed when the copy failed), and once the
\* BufferManager is destroyed the allocator's outstanding-allocation count is back at
\* its value before the uploads (0) and no buffer is left allocated.
C11_UploadLeavesNoAllocation ==
    /\ mpc = "bmIndex" => allocator.live = KeptByUpload(outcomes.vertex, bm.vertexBuffer)
    /\ mpc = "bmUniform" =>
           allocator.live = KeptByUpload(outcomes.vertex, bm.vertexBuffer)
                                \cup KeptByUpload(outcomes.index, bm.indexBuffer)
    /\ (mpc = "bmDestroyed" /\ outcomes.uniform = <<>>) =>
           (allocator.outstanding = 0 /\ allocator.live = {})

\* C12: when the creation or the mapping of uniform buffer i fails in
\* createUniformBuffers (of the BufferManager, and of the GraphicsPipeline of
\* graphics_pipeline.cpp), the call reports the failure and none of the uniform
\* buffers it created is still allocated when it returns.
C12_UniformFailureTearsDown ==
    /\ (mpc = "bmReady" /\ outcomes.uniform \in UniformFailures) =>
           \A i \in Slots : bm.uniformBuffers[i] \notin allocator.live
    /\ (mpc \in {"gpUniformDone", "gpUniformFailed"} /\ outcomes.uniform \in UniformFailures) =>
           /\ mpc = "gpUniformFailed"
           /\ \A i \in Slots : gp.uniformBuffers[i] \notin allocator.live

\* C13: the construction of a BufferManager completes only with the vertex buffer, the
\* index buffer and every uniform buffer created: a BufferManager that is ready for the
\* frame loop holds allocated buffers only.
C13_NoBufferManagerWithoutBuffers ==
    mpc = "bmReady" =>
        /\ bm.vertexBuffer \in allocator.live
        /\ bm.indexBuffer \in allocator.live
        /\ \A i \in Slots : bm.uniformBuffers[i] \in allocator.live

\* C14: when the construction of the CommandBufferManager fails (a semaphore or a fence
\* cannot be created at slot i), a runtime error leaves the constructor and no command
\* pool, semaphore or fence created by that construction is left alive on the device.
C14_FailedStartupLeavesNothing ==
    mpc = "startupFailed" => (mexc.type = "std::runtime_error" /\ device.live = {})

\* C15: a per-slot accessor never reads outside its vector; called with an index >= N
\* it fails with an error, called with a slot whose handle is null it fails with an
\* error, and called with a slot whose handle exists it returns that handle.
C15_AccessorsBoundsChecked ==
    lastAccess.fn \in AccessorNames =>
        /\ ~lastAccess.outOfBounds
        /\ lastAccess.index >= MAX_FRAMES_IN_FLIGHT => lastAccess.outcome = "std::runtime_error"
        /\ lastAccess.index < MAX_FRAMES_IN_FLIGHT =>
               IF AccessedVector(lastAccess.fn)[lastAccess.index] = VK_NULL_HANDLE
               THEN lastAccess.outcome = "std::runtime_error"
               ELSE /\ lastAccess.outcome = "returned"
                    /\ lastAccess.value = AccessedVector(lastAccess.fn)[lastAccess.index]

\* C16: a call updateUniformBuffer(slot, data) with slot >= N fails with
\* std::out_of_range and leaves the mapped memory of every uniform buffer as it was.
C16_OutOfRangeUpdateWritesNothing ==
    [][(BmUpdateUniformBuffer /\ lastUpdate'.slot >= MAX_FRAMES_IN_FLIGHT)
           => (lastUpdate'.outcome = "std::out_of_range" /\ memory' = memory)]_vars

C16_Witness ==
    /\ mpc = "bmReady"
    /\ outcomes.uniform = <<>>
    /\ lastUpdate.slot = MAX_FRAMES_IN_FLIGHT
    /\ lastUpdate.outcome = "std::out_of_range"
    /\ lastUpdate.data # FreshBytes
    /\ \A i \in Slots : memory[bm.uniformBuffersMapped[i]] = lastUpdate.data

\* C17: a call updateUniformBuffer(slot, data) with slot < N writes only when the
\* slot's uniform buffer is allocated and mapped at the call; in every other case
\* (never created, mapping failed, torn down by a failed createUniformBuffers) it fails
\* with the runtime (state) error and writes nothing.
C17_UpdateNeedsLiveBuffer ==
    (lastUpdate.outcome # "none" /\ lastUpdate.slot < MAX_FRAMES_IN_FLIGHT) =>
        IF lastUpdate.targetLive
        THEN lastUpdate.outcome = "written"
        ELSE lastUpdate.outcome = "std::runtime_error"

\* C18: a call updateUniformBuffer(slot, data) with slot < N that does not fail with the
\* state error leaves exactly data in the mapped memory of the slot's uniform buffer,
\* and the mapped memory of every other buffer as it was.
C18_UpdateRoundTrip ==
    [][(BmUpdateUniformBuffer /\ lastUpdate'.slot < MAX_FRAMES_IN_FLIGHT
            /\ lastUpdate'.outcome # "std::runtime_error")
           => /\ lastUpdate'.target \in DOMAIN memory'
              /\ memory'[lastUpdate'.target] = lastUpdate'.data
              /\ \A h \in DOMAIN memory : h # lastUpdate'.target => memory'[h] = memory[h]]_vars

\* C19: the frame-slot counter starts at 0, is in [0, N), and after k advances of
\* drawFrame it is k mod N (so after N + 1 advances it is 1).
C19_SlotCounterRotates ==
    /\ currentFrame \in Slots
    /\ currentFrame = advances % MAX_FRAMES_IN_FLIGHT
    /\ frameCount = 0 => currentFrame = 0

C19_Witness ==
    /\ advances = MAX_FRAMES_IN_FLIGHT + 1
    /\ currentFrame = 1
    /\ pc = "loop"

\* the positions of the indexed draw calls in the commands cmds
DrawCalls(cmds) == {k \in 1 .. Len(cmds) : cmds[k].cmd = "vkCmdDrawIndexed"}

\* C20: every command buffer that holds a recorded frame holds exactly one indexed draw
\* call, with index count K = the number of indices, instance count 1, first index 0,
\* vertex offset 0 and first instance 0, whatever the slot and the acquired image.
C20_OneIndexedDrawPerFrame ==
    \A s \in Slots :
        commandBuffers[s] \in {"executable", "pending"} =>
            /\ Cardinality(DrawCalls(recordedCommands[s])) = 1
            /\ \A k \in DrawCalls(recordedCommands[s]) :
                   recordedCommands[s][k] =
                       [cmd |-> "vkCmdDrawIndexed", indexCount |-> Len(indices), instanceCount |-> 1,
                        firstIndex |-> 0, vertexOffset |-> 0, firstInstance |-> 0]

C20_Witness ==
    /\ \A s \in Slots : commandBuffers[s] \in {"executable", "pending"}
    /\ recordedCommands[0][1].framebuffer # recordedCommands[1][1].framebuffer
    /\ Len(indices) = 6
    /\ pc = "loop"

\* the calls the allocator has logged, as <<operation, buffer>> pairs
LoggedCalls(a) == [k \in DOMAIN a.log |-> <<a.log[k].op, a.log[k].buffer>>]

RECURSIVE UniformTeardown(_)
\* unmap then free, for the uniform buffers of slots i .. N-1
UniformTeardown(i) ==
    IF i >= MAX_FRAMES_IN_FLIGHT
    THEN <<>>
    ELSE <<<<"unmap", bm.uniformBuffers[i]>>, <<"destroy", bm.uniformBuffers[i]>>>>
             \o UniformTeardown(i + 1)

\* the staging buffers of the two uploads are unmapped and freed during construction
UploadCalls == 4

\* C21: every uniform buffer that is freed while it is allocated is not mapped at that
\* moment (it was unmapped first), in the destructor of the BufferManager and in the
\* failure cleanup of createUniformBuffers; and the destructor of a BufferManager whose
\* buffers were all created unmaps and frees the N uniform buffers first, then frees
\* the vertex buffer, then the index buffer.
C21_UnmapBeforeFree ==
    /\ \A k \in DOMAIN allocator.log :
           (allocator.log[k].op = "destroy" /\ allocator.log[k].live) => ~allocator.log[k].mapped
    /\ (mpc = "bmDestroyed" /\ outcomes = [vertex |-> "ok", index |-> "ok", uniform |-> <<>>]) =>
           SubSeq(LoggedCalls(allocator), UploadCalls + 1, Len(allocator.log)) =
               UniformTeardown(0) \o <<<<"destroy", bm.vertexBuffer>>, <<"destroy", bm.indexBuffer>>>>


\* C23: when vkWaitForFences, vkResetFences or vkResetCommandBuffer returns anything but
\* VK_SUCCESS, drawFrame raises std::runtime_error and the thread goes to teardown: the
\* frame does not go on to acquire, record or submit.
C23_EveryFailureRaises ==
    (lastCall.call \in {"vkWaitForFences", "vkResetFences", "vkResetCommandBuffer"}
     /\ lastCall.result # VK_SUCCESS)
        => (pc \in Teardown /\ exc.type = "std::runtime_error")

\* C27: no buffer is destroyed twice, and no handle that is not an allocated buffer is
\* destroyed, whatever the outcomes of the creations that came before the destructor of
\* the BufferManager: every destroyBuffer is applied to a buffer that is allocated.
C27_DestroyedAtMostOnce ==
    \A k \in DOMAIN allocator.log : allocator.log[k].op = "destroy" => allocator.log[k].live

\* the positions of the calls ~GraphicsPipeline applied to object obj
Occurrences(obj) == {k \in DOMAIN teardownLog : teardownLog[k].object = obj}

\* the per-slot objects of slot s that were created
SlotObjects(s) ==
    {<<"commandBuffers", s>>}
        \cup (IF imageAvailableSemaphores[s] # "null" THEN {<<"imageAvailableSemaphores", s>>} ELSE {})
        \cup (IF renderFinishedSemaphores[s] # "null" THEN {<<"renderFinishedSemaphores", s>>} ELSE {})
        \cup (IF inFlightFences[s] # "null" THEN {<<"inFlightFences", s>>} ELSE {})

\* C22: when the process has ended, every slot's command buffer, semaphores and fence
\* that startup created have been destroyed, each exactly once, and the command buffers
\* before the command pool; and while any of them is destroyed the frame loop is over
\* and no submission that uses it is left on the device.
C22_SlotResourcesDestroyedOnce ==
    /\ pc = "done" =>
           \A s \in Slots :
               /\ commandBuffers[s] = "freed"
               /\ imageAvailableSemaphores[s] \in {"null", "destroyed"}
               /\ renderFinishedSemaphores[s] \in {"null", "destroyed"}
               /\ inFlightFences[s] \in {"null", "destroyed"}
               /\ \A obj \in SlotObjects(s) : Cardinality(Occurrences(obj)) = 1
               /\ \A k \in Occurrences(<<"commandBuffers", s>>) :
                      \A j \in Occurrences(<<"commandPool", 0>>) : k < j
    /\ \A s \in Slots :
           ("destroyed" \in {inFlightFences[s], imageAvailableSemaphores[s], renderFinishedSemaphores[s]}
            \/ commandBuffers[s] = "freed")
               => (pc \in {"mainExit", "done"} /\ Unretired(s) = {})

\* the members the release order is stated for
ReleasedMembers == SelectSeq(released, LAMBDA m : m # "validationLayers")

\* C24: once an exception has been raised (by startup or by drawFrame) no frame step
\* runs any more, and when the process has ended the graphics pipeline, the swapchain,
\* the logical device, the physical device, the instance (with its surface) and the
\* window have been released in this order and main has returned EXIT_FAILURE.
C24_FatalErrorReleasesInReverseOrder ==
    exc # NoExc =>
        /\ pc \in Teardown
        /\ pc = "done" =>
               /\ ReleasedMembers = <<"graphicsPipeline", "swapChain", "vulkanLogicalDevice",
                                      "vulkanPhysicalDevice", "vulkanInstanceCreator", "windowInstance">>
               /\ exitCode = "EXIT_FAILURE"

\* C29: the destructor of the GraphicsPipeline built by VulkanApplication (no call of
\* createUniformBuffers) applies vmaUnmapMemory and destroyBuffer only to uniform-buffer
\* slots that exist: it indexes no element beyond the size of the uniform-buffer vectors.
C29_TeardownTouchesOnlyCreated ==
    \A k \in DOMAIN teardownLog :
        teardownLog[k].object[1] \in {"uniformBuffersMemory", "uniformBuffers"} => teardownLog[k].exists

\* the positions of the commands named c in the commands cmds
CallsOf(cmds, c) == {k \in 1 .. Len(cmds) : cmds[k].cmd = c}

\* C25: the commands recordCommandBuffer(slot, imageIndex) has put into the slot's
\* command buffer begin one render pass on the framebuffer of the acquired image (not of
\* the slot) and end it once, at the end, and between the two they bind the descriptor
\* set of the slot before the indexed draw.
C25_RecordTargetsImageAndBindsSlot ==
    pc = "submit" =>
        LET cmds == recordedCommands[frameIndex]
        IN /\ cmds[1] = [cmd |-> "vkCmdBeginRenderPass", framebuffer |-> imageIndex]
           /\ CallsOf(cmds, "vkCmdBeginRenderPass") = {1}
           /\ CallsOf(cmds, "vkCmdEndRenderPass") = {Len(cmds)}
           /\ \E b \in CallsOf(cmds, "vkCmdBindDescriptorSets") :
                  /\ cmds[b].descriptorSet = frameIndex
                  /\ \A d \in DrawCalls(cmds) : b < d

\* C26: while a present request of an earlier frame that waits on a slot's
\* render-finished semaphore is still queued, no submission of a later frame that
\* signals the same semaphore is on the device; and when drawFrame has handed a slot's
\* image-available semaphore to an acquire, no submission of an earlier frame that
\* waits on the same semaphore is still waiting.
C26_SemaphoresNotReusedWhileWaited ==
    /\ \A k \in 1 .. Len(gpuQueue) : \A j \in 1 .. Len(presentQueue) :
           gpuQueue[k].signalSem = presentQueue[j].waitSem => gpuQueue[k].frame <= presentQueue[j].frame
    /\ pc \in {"resetCommandBuffer", "record", "submit"} =>
           \A k \in 1 .. Len(gpuQueue) :
               (gpuQueue[k].waitSem = AcquireSemaphore(frameIndex) /\ gpuQueue[k].phase = "queued")
                   => gpuQueue[k].frame >= frameCount

FramebufferAccessors == {"getFrameBuffer", "getFrameBuffers"}

\* C30: getFrameBuffer(i) and getFrameBuffers() fail with an error when no framebuffer
\* has been created, getFrameBuffer(i) fails with an error for every i >= count (i =
\* count included), and a call returns only for 0 <= i < count, with the framebuffer of
\* index i, count being the number of swapchain image views.
C30_FramebufferAccessorsChecked ==
    lastAccess.fn \in FramebufferAccessors =>
        /\ Size(gp.framebuffers) = 0 => lastAccess.outcome = "std::runtime_error"
        /\ (lastAccess.fn = "getFrameBuffer" /\ lastAccess.index >= Size(gp.framebuffers)) =>
               lastAccess.outcome = "std::runtime_error"
        /\ lastAccess.outcome = "returned" =>
               /\ Size(gp.framebuffers) = NumImages
               /\ lastAccess.fn = "getFrameBuffer" =>
                      /\ ~lastAccess.outOfBounds
                      /\ lastAccess.value = gp.framebuffers[lastAccess.index]

\* the positions of the thread inside a drawFrame iteration
InDrawFrame == {"wait", "reset", "acquire", "resetCommandBuffer", "record", "submit", "present"}

====
